---- MODULE Spec2Model ----
(***************************************************************************)
(* A model of sqlit's SnowflakeAdapter (sqlit/db/adapters/snowflake.py).   *)
(*                                                                         *)
(* The adapter is a stateless object.  Its state, as far as a caller can   *)
(* observe it, is: the session handles the driver has handed out, the      *)
(* cursor of the call in flight, the statements that call has sent to the  *)
(* backend, and what the call returned or raised.  The backend is a        *)
(* catalog (information_schema) that answers the adapter's statements.     *)
(*                                                                         *)
(* Text is a sequence of symbols.  A symbol is the double-quote character, *)
(* a one-letter character, or a quote-free literal of the source kept as   *)
(* one symbol ("PUBLIC", "SELECT * FROM ").  None is the empty sequence    *)
(* <<>> and a present optional value x is <<x>>.                           *)
(***************************************************************************)
EXTENDS Integers, Sequences, FiniteSets, TLC

VARIABLES
    catalog,      \* the backend's information_schema content
    conns,        \* session handles handed out by the driver: handle -> record
    self_dict,    \* the adapter object's instance attributes
    call,         \* the adapter method being (or last) invoked, with its arguments
    pc,           \* position inside the method in flight; "done" once it has left,
                  \* "idle" once the caller has taken the result
    locals,       \* local variables of the method in flight
    cursor,       \* the cursor object of the method in flight
    sent,         \* statements the call in flight has sent through cursor.execute
    fetched,      \* rows the call in flight has taken from the cursor
    driver_calls, \* keyword arguments of each sf.connect(...) made by the call
    backend_error,\* the error the driver or backend raised into the call, if any
    outcome       \* what the call returned or raised

vars == <<catalog, conns, self_dict, call, pc, locals, cursor, sent, fetched,
          driver_calls, backend_error, outcome>>

----------------------------------------------------------------------------
(* Bounds of the model *)

MaxLen == 2       \* longest identifier drawn over Alphabet
MaxRows == 3      \* largest result set the backend returns to a free query
MaxK == 2         \* largest max_rows ceiling passed to execute_query
MaxConns == 1     \* session handles opened in one behaviour

----------------------------------------------------------------------------
(* Text *)

DQ == "\""

Alphabet == {"a", DQ}

RECURSIVE StringsUpTo(_)
StringsUpTo(n) ==
    IF n = 0 THEN {<<>>}
    ELSE LET shorter == StringsUpTo(n - 1)
         IN  shorter \cup {Append(s, c) : s \in {t \in shorter : Len(t) = n - 1}, c \in Alphabet}

\* identifiers of the spec's scenarios and of the catalog
FIRST_NAME == <<"first", DQ, "name">>
ORDERS == <<"orders">>
SALES == <<"sales">>
PUBLIC == <<"PUBLIC">>
INFORMATION_SCHEMA == <<"INFORMATION_SCHEMA">>

Names == StringsUpTo(MaxLen) \cup {FIRST_NAME, ORDERS, SALES}

None == <<>>
Some(x) == <<x>>
Optional(S) == {None} \cup {Some(x) : x \in S}

\* Python truthiness of an optional string: None and "" are both falsy
Truthy(opt) == opt # None /\ opt[1] # <<>>

\* str.replace('"', '""')
RECURSIVE replace_dq(_)
replace_dq(s) ==
    IF s = <<>> THEN <<>>
    ELSE IF Head(s) = DQ THEN <<DQ, DQ>> \o replace_dq(Tail(s))
    ELSE <<Head(s)>> \o replace_dq(Tail(s))

quote_identifier_unescaped(name) == <<DQ>> \o name \o <<DQ>>

quote_identifier(name) ==
    LET escaped == replace_dq(name)
    IN  <<DQ>> \o escaped \o <<DQ>>

\* schema = schema or "PUBLIC"
SchemaOrPublic(schema) == IF Truthy(schema) THEN schema[1] ELSE PUBLIC

build_select_query(table, limit, database, schema) ==
    LET s == SchemaOrPublic(schema)
    IN  <<"SELECT * FROM ", DQ>> \o s \o <<DQ, ".", DQ>> \o table
            \o <<DQ, " LIMIT ", ToString(limit)>>

\* db_prefix = f"{self.quote_identifier(database)}." if database else ""
db_prefix(database) ==
    IF Truthy(database) THEN quote_identifier(database[1]) \o <<".">> ELSE <<>>

----------------------------------------------------------------------------
(* The backend's reading of a quoted identifier: strip the outer quotes and *)
(* collapse each doubled quote; a lone inner quote ends the identifier      *)
(* early, which is a syntax error.                                          *)

RECURSIVE Collapse(_)
Collapse(s) ==
    IF s = <<>> THEN [ok |-> TRUE, val |-> <<>>]
    ELSE IF Head(s) = DQ
         THEN IF Len(s) >= 2 /\ s[2] = DQ
              THEN LET r == Collapse(Tail(Tail(s)))
                   IN  [ok |-> r.ok, val |-> <<DQ>> \o r.val]
              ELSE [ok |-> FALSE, val |-> <<>>]
         ELSE LET r == Collapse(Tail(s))
              IN  [ok |-> r.ok, val |-> <<Head(s)>> \o r.val]

ParseQuoted(text) ==
    IF Len(text) >= 2 /\ text[1] = DQ /\ text[Len(text)] = DQ
    THEN Collapse(SubSeq(text, 2, Len(text) - 1))
    ELSE [ok |-> FALSE, val |-> <<>>]

----------------------------------------------------------------------------
(* The backend: catalog content                                             *)

DB1 == <<"DB1">>
DBQ == <<"D", DQ, "B">>          \* a database whose name holds a double quote
ANALYTICS == <<"ANALYTICS">>
T1 == <<"T1">>
T2 == <<"T2">>
T3 == <<"T3">>
TABLES == <<"TABLES">>
COL_ID == <<"ID">>
COL_B == <<"B">>
COL_C == <<"C">>
PK == <<"PK">>
PK_T2 == <<"PK_T2">>

\* the backend's collation of the catalog's (one-symbol) names
Collation == <<"ANALYTICS", "B", "C", "ID", "INFORMATION_SCHEMA", "ORDERS_T", "P1", "P2",
               "PUBLIC", "S1", "S2", "T1", "T2", "T3", "TABLES", "V1">>

NameRank(name) == CHOOSE i \in 1..Len(Collation) : Collation[i] = name[1]

Tbl(db, schema, name, type) ==
    [db |-> db, schema |-> schema, name |-> name, type |-> type]
Col(db, schema, table, name, data_type, ordinal) ==
    [db |-> db, schema |-> schema, table |-> table, name |-> name,
     data_type |-> data_type, ordinal |-> ordinal]
Con(db, schema, table, cname, ctype) ==
    [db |-> db, schema |-> schema, table |-> table, cname |-> cname, ctype |-> ctype]
Kcu(db, schema, table, cname, column) ==
    [db |-> db, schema |-> schema, table |-> table, cname |-> cname, column |-> column]

T2Kinds == {"absent", "BASE TABLE", "VIEW"}
T2Constraints == {"none", "PRIMARY KEY same name", "PRIMARY KEY own name", "UNIQUE same name"}

MkCatalog(t2kind, iskind, t1pk, t2con) ==
    [databases |-> {DB1, DBQ},
     tables |->
        {Tbl(DB1, PUBLIC, T1, "BASE TABLE"),
         Tbl(DB1, PUBLIC, <<"V1">>, "VIEW"),
         Tbl(DB1, ANALYTICS, <<"ORDERS_T">>, "BASE TABLE"),
         Tbl(DB1, INFORMATION_SCHEMA, TABLES, iskind),
         Tbl(DBQ, PUBLIC, T3, "BASE TABLE"),
         Tbl(DBQ, INFORMATION_SCHEMA, TABLES, "VIEW")}
        \cup (IF t2kind = "absent" THEN {} ELSE {Tbl(DB1, PUBLIC, T2, t2kind)}),
     columns |->
        {Col(DB1, PUBLIC, T1, COL_ID, <<"NUMBER">>, 1),
         Col(DB1, PUBLIC, T1, COL_B, <<"TEXT">>, 2),
         Col(DB1, ANALYTICS, <<"ORDERS_T">>, COL_ID, <<"NUMBER">>, 1),
         Col(DBQ, PUBLIC, T3, COL_C, <<"TEXT">>, 1)}
        \cup (IF t2kind = "absent" THEN {}
              ELSE {Col(DB1, PUBLIC, T2, COL_C, <<"TEXT">>, 1),
                    Col(DB1, PUBLIC, T2, COL_B, <<"TEXT">>, 2)}),
     table_constraints |->
        (IF t1pk THEN {Con(DB1, PUBLIC, T1, PK, "PRIMARY KEY")} ELSE {})
        \cup {Con(DB1, ANALYTICS, <<"ORDERS_T">>, PK, "PRIMARY KEY")}
        \cup (CASE t2con = "PRIMARY KEY same name" -> {Con(DB1, PUBLIC, T2, PK, "PRIMARY KEY")}
                [] t2con = "PRIMARY KEY own name" -> {Con(DB1, PUBLIC, T2, PK_T2, "PRIMARY KEY")}
                [] t2con = "UNIQUE same name" -> {Con(DB1, PUBLIC, T2, PK, "UNIQUE")}
                [] OTHER -> {}),
     key_column_usage |->
        (IF t1pk THEN {Kcu(DB1, PUBLIC, T1, PK, COL_ID)} ELSE {})
        \cup {Kcu(DB1, ANALYTICS, <<"ORDERS_T">>, PK, COL_ID)}
        \cup (CASE t2con = "PRIMARY KEY same name" -> {Kcu(DB1, PUBLIC, T2, PK, COL_B)}
                [] t2con = "PRIMARY KEY own name" -> {Kcu(DB1, PUBLIC, T2, PK_T2, COL_B)}
                [] t2con = "UNIQUE same name" -> {Kcu(DB1, PUBLIC, T2, PK, COL_B)}
                [] OTHER -> {}),
     routines |->
        {[db |-> DB1, schema |-> PUBLIC, name |-> <<"P2">>, sig |-> 1, type |-> "PROCEDURE"],
         [db |-> DB1, schema |-> PUBLIC, name |-> <<"P1">>, sig |-> 1, type |-> "PROCEDURE"],
         [db |-> DB1, schema |-> ANALYTICS, name |-> <<"P1">>, sig |-> 2, type |-> "PROCEDURE"],
         [db |-> DB1, schema |-> PUBLIC, name |-> <<"S1">>, sig |-> 1, type |-> "FUNCTION"]},
     sequences |->
        {[db |-> DB1, schema |-> PUBLIC, name |-> <<"S1">>],
         [db |-> DBQ, schema |-> PUBLIC, name |-> <<"S2">>]}]

Catalogs ==
    {MkCatalog(t2kind, iskind, t1pk, t2con) :
        t2kind \in T2Kinds, iskind \in {"VIEW", "BASE TABLE"}, t1pk \in BOOLEAN,
        t2con \in T2Constraints}
    \ {MkCatalog(t2kind, iskind, t1pk, t2con) :
        t2kind \in T2Kinds \ {"BASE TABLE"}, iskind \in {"VIEW", "BASE TABLE"},
        t1pk \in BOOLEAN, t2con \in T2Constraints \ {"none"}}

----------------------------------------------------------------------------
(* The backend: statements and their results                                *)

\* a driver-native row object; the adapter indexes it and converts it with tuple()
NativeRow(cells) == [cells |-> cells]
Item(row, i) == row.cells[i + 1]          \* row[i], 0-based as in the source
tuple(row) == row.cells

\* a statement as passed to cursor.execute(sql, params): the SQL text with the
\* database prefix kept apart, and the bound parameters
Stmt(sql, prefix, params) == [sql |-> sql, prefix |-> prefix, params |-> params]

SQL_SHOW_DATABASES == "SHOW DATABASES"
SQL_SHOW_TABLES == "SHOW TABLES"
SQL_SHOW_VIEWS == "SHOW VIEWS"
SQL_INFO_VIEWS ==
    "SELECT table_schema, table_name FROM information_schema.views WHERE table_schema != 'INFORMATION_SCHEMA' ORDER BY table_schema, table_name"
SQL_INFO_TABLES ==
    "SELECT table_schema, table_name FROM information_schema.tables WHERE table_type = 'BASE TABLE' AND table_schema != 'INFORMATION_SCHEMA' ORDER BY table_schema, table_name"
SQL_INFO_COLUMNS ==
    "SELECT column_name, data_type, ordinal_position FROM information_schema.columns WHERE table_schema = %s AND table_name = %s ORDER BY ordinal_position"
SQL_INFO_PK ==
    "SELECT kcu.column_name FROM information_schema.table_constraints tc JOIN information_schema.key_column_usage kcu ON tc.constraint_name = kcu.constraint_name AND tc.table_schema = kcu.table_schema WHERE tc.constraint_type = 'PRIMARY KEY' AND tc.table_schema = %s AND tc.table_name = %s"
SQL_INFO_ROUTINES ==
    "SELECT routine_name FROM information_schema.routines WHERE routine_type = 'PROCEDURE' AND routine_schema != 'INFORMATION_SCHEMA' ORDER BY routine_name"
SQL_INFO_SEQUENCES ==
    "SELECT sequence_name FROM information_schema.sequences WHERE sequence_schema != 'INFORMATION_SCHEMA'"

CatalogSQL == {SQL_SHOW_DATABASES, SQL_SHOW_TABLES, SQL_SHOW_VIEWS, SQL_INFO_VIEWS,
               SQL_INFO_TABLES, SQL_INFO_COLUMNS, SQL_INFO_PK, SQL_INFO_ROUTINES,
               SQL_INFO_SEQUENCES}

\* every enumeration of a finite set: the orders a query without ORDER BY may answer in
Orderings(S) ==
    {s \in [1..Cardinality(S) -> S] : \A i, j \in 1..Cardinality(S) : s[i] = s[j] => i = j}

BySchemaThenName(a, b) ==
    \/ NameRank(a.schema) < NameRank(b.schema)
    \/ NameRank(a.schema) = NameRank(b.schema) /\ NameRank(a.name) < NameRank(b.name)

ByOrdinal(a, b) == a.ordinal < b.ordinal

ByRoutineName(a, b) == NameRank(a.name) <= NameRank(b.name)

\* the enumerations of S that ORDER BY leaves possible: ties come in any order
OrderedBy(S, NotAfter(_, _)) ==
    {s \in Orderings(S) : \A i, j \in 1..Cardinality(S) : i < j => NotAfter(s[i], s[j])}

MapSeq(s, F(_)) == [i \in 1..Len(s) |-> F(s[i])]

\* the database a statement addresses: the quoted prefix if there is one, the
\* session's current database otherwise
TargetDb(stmt, current) ==
    IF stmt.prefix = <<>> THEN [ok |-> TRUE, val |-> current]
    ELSE IF stmt.prefix[Len(stmt.prefix)] = "."
         THEN ParseQuoted(SubSeq(stmt.prefix, 1, Len(stmt.prefix) - 1))
         ELSE ParseQuoted(stmt.prefix)

InDb(S, db) == {x \in S : x.db = db}

\* the rows the catalog holds for a statement, in every order the statement allows
CatalogAnswers(stmt, db) ==
    LET sql == stmt.sql
        views == {t \in InDb(catalog.tables, db) : t.type = "VIEW"}
        bases == {t \in InDb(catalog.tables, db) : t.type = "BASE TABLE"}
        user(S) == {t \in S : t.schema # INFORMATION_SCHEMA}
        SchemaName(t) == NativeRow(<<t.schema, t.name>>)
        ShowTable(t) == NativeRow(<<<<"created_on">>, t.name, t.db, t.schema>>)
        ShowView(t) == NativeRow(<<<<"created_on">>, t.name, <<"reserved">>, t.db, t.schema>>)
        ShowDb(d) == NativeRow(<<<<"created_on">>, d>>)
        ColRow(c) == NativeRow(<<c.name, c.data_type, c.ordinal>>)
        NameOnly(r) == NativeRow(<<r.name>>)
        cols == {c \in InDb(catalog.columns, db) :
                    c.schema = stmt.params[1] /\ c.table = stmt.params[2]}
        joined == {p \in InDb(catalog.table_constraints, db) \X InDb(catalog.key_column_usage, db) :
                    /\ p[1].cname = p[2].cname
                    /\ p[1].schema = p[2].schema
                    /\ p[1].ctype = "PRIMARY KEY"
                    /\ p[1].schema = stmt.params[1]
                    /\ p[1].table = stmt.params[2]}
        KeyColumn(p) == NativeRow(<<p[2].column>>)
        procs == {r \in InDb(catalog.routines, db) :
                    r.type = "PROCEDURE" /\ r.schema # INFORMATION_SCHEMA}
        seqs == {q \in InDb(catalog.sequences, db) : q.schema # INFORMATION_SCHEMA}
    IN  CASE sql = SQL_SHOW_DATABASES ->
                {MapSeq(o, ShowDb) : o \in Orderings(catalog.databases)}
          [] sql = SQL_SHOW_TABLES ->
                {MapSeq(o, ShowTable) : o \in Orderings(user(bases))}
          [] sql = SQL_SHOW_VIEWS ->
                {MapSeq(o, ShowView) : o \in Orderings(views)}
          [] sql = SQL_INFO_VIEWS ->
                {MapSeq(o, SchemaName) : o \in OrderedBy(user(views), BySchemaThenName)}
          [] sql = SQL_INFO_TABLES ->
                {MapSeq(o, SchemaName) : o \in OrderedBy(user(bases), BySchemaThenName)}
          [] sql = SQL_INFO_COLUMNS ->
                {MapSeq(o, ColRow) : o \in OrderedBy(cols, ByOrdinal)}
          [] sql = SQL_INFO_PK ->
                {MapSeq(o, KeyColumn) : o \in Orderings(joined)}
          [] sql = SQL_INFO_ROUTINES ->
                {MapSeq(o, NameOnly) : o \in OrderedBy(procs, ByRoutineName)}
          [] sql = SQL_INFO_SEQUENCES ->
                {MapSeq(o, NameOnly) : o \in Orderings(seqs)}

\* cursor.description of a catalog statement: one (name, type_code) entry per column
CatalogDescription(sql) ==
    LET D(names) == Some(MapSeq(names, LAMBDA n : <<n, 0>>))
    IN  CASE sql = SQL_SHOW_DATABASES -> D(<<"created_on", "name">>)
          [] sql = SQL_SHOW_TABLES -> D(<<"created_on", "name", "database_name", "schema_name">>)
          [] sql = SQL_SHOW_VIEWS ->
                D(<<"created_on", "name", "reserved", "database_name", "schema_name">>)
          [] sql \in {SQL_INFO_VIEWS, SQL_INFO_TABLES} -> D(<<"TABLE_SCHEMA", "TABLE_NAME">>)
          [] sql = SQL_INFO_COLUMNS -> D(<<"COLUMN_NAME", "DATA_TYPE", "ORDINAL_POSITION">>)
          [] sql = SQL_INFO_PK -> D(<<"COLUMN_NAME">>)
          [] sql = SQL_INFO_ROUTINES -> D(<<"ROUTINE_NAME">>)
          [] sql = SQL_INFO_SEQUENCES -> D(<<"SEQUENCE_NAME">>)

\* free statements a caller hands to execute_query / execute_non_query
SELECT_1 == <<"SELECT 1">>
SELECT_ID_B == <<"SELECT ID, B FROM T1">>
UPDATE_T1 == <<"UPDATE T1 SET B = 1">>
Queries == {SELECT_1, SELECT_ID_B, UPDATE_T1}

CursorResult(rows, description, rowcount) ==
    [exists |-> TRUE, rows |-> rows, description |-> description, rowcount |-> rowcount]

NoCursor == [exists |-> FALSE, rows |-> <<>>, description |-> None, rowcount |-> None]

\* what the backend may answer to a free statement: a row-returning statement
\* yields n rows under a descriptor with one (name, type_code) entry per selected
\* column; a statement without a result set leaves no descriptor (None or empty)
\* and may or may not report a count
FreeAnswers(query) ==
    CASE query = SELECT_1 ->
            {CursorResult([i \in 1..n |-> NativeRow(<<i>>)], Some(<< <<"C1", 0>> >>), Some(n)) :
                n \in 0..MaxRows}
      [] query = SELECT_ID_B ->
            {CursorResult([i \in 1..n |-> NativeRow(<<i, i>>)],
                          Some(<< <<"ID", 0>>, <<"B", 2>> >>), Some(n)) :
                n \in 0..MaxRows}
      [] OTHER ->
            {CursorResult(<<>>, d, rc) :
                d \in {None, Some(<<>>)}, rc \in Optional(0..MaxRows)}

\* every state cursor.execute(stmt) can leave the cursor in when it succeeds on a
\* session whose current database is `current`; empty when the statement cannot
\* succeed (unknown database)
ExecuteAnswers(stmt, current) ==
    IF stmt.sql \in CatalogSQL
    THEN LET db == TargetDb(stmt, current)
         IN  IF db.ok /\ db.val \in catalog.databases
             THEN {CursorResult(rows, CatalogDescription(stmt.sql), Some(Len(rows))) :
                      rows \in CatalogAnswers(stmt, db.val)}
             ELSE {}
    ELSE FreeAnswers(stmt.sql)

BackendErrors == {"ProgrammingError", "OperationalError"}

----------------------------------------------------------------------------
(* Calls: how a method starts, raises and returns                           *)

NoLocals == [frame |-> "none"]
NoOutcome == [kind |-> "pending"]
Returned(v) == [kind |-> "return", value |-> v]
Raised(e) == [kind |-> "raise", value |-> e]

\* the method's frame is gone: its locals and its cursor are dropped
Leave(result) ==
    /\ outcome' = result
    /\ pc' = "done"
    /\ locals' = NoLocals
    /\ cursor' = NoCursor

\* an exception raised into the method by the driver leaves it unhandled
Propagate(e) ==
    /\ backend_error' = Some(e)
    /\ Leave(Raised(e))

Start(c) ==
    /\ pc = "idle"
    /\ call' = c
    /\ sent' = <<>>
    /\ fetched' = 0
    /\ driver_calls' = <<>>

\* cursor = conn.cursor(): the driver refuses a closed session
OpenCursor(conn, next) ==
    IF conns[conn].state = "open"
    THEN /\ cursor' = [NoCursor EXCEPT !.exists = TRUE]
         /\ locals' = [conn |-> conn]
         /\ pc' = next
         /\ outcome' = NoOutcome
         /\ backend_error' = None
    ELSE Propagate("InterfaceError")

\* cursor.execute(stmt): the backend fails, or leaves a result on the cursor
Execute(stmt, next) ==
    /\ sent' = Append(sent, stmt)
    /\ \/ \E e \in BackendErrors : Propagate(e)
       \/ \E r \in ExecuteAnswers(stmt, conns[locals.conn].database) :
            /\ cursor' = r
            /\ pc' = next
            /\ UNCHANGED <<backend_error, outcome>>


Min(a, b) == IF a < b THEN a ELSE b

\* cursor.fetchall() and cursor.fetchmany(size): rows leave the cursor in order
FetchAll(cur) == [rows |-> cur.rows, cursor |-> [cur EXCEPT !.rows = <<>>]]
FetchMany(cur, size) ==
    LET n == Min(size, Len(cur.rows))
    IN  [rows |-> SubSeq(cur.rows, 1, n),
         cursor |-> [cur EXCEPT !.rows = SubSeq(cur.rows, n + 1, Len(cur.rows))]]

DbArgs == {None, Some(<<>>), Some(DB1), Some(DBQ)}

----------------------------------------------------------------------------
(* quote_identifier and build_select_query as methods                       *)

Limits == {10}

quote_identifier_call ==
    /\ \E name \in Names :
        /\ Start([op |-> "quote_identifier", name |-> name])
        /\ outcome' = Returned(quote_identifier(name))
    /\ pc' = "done"
    /\ backend_error' = None
    /\ UNCHANGED <<catalog, conns, self_dict, locals, cursor>>

build_select_query_call ==
    /\ \E table \in Names \ {<<>>}, limit \in Limits, database \in {None, Some(DB1)},
          schema \in Optional(Names) :
        /\ Start([op |-> "build_select_query", table |-> table, limit |-> limit,
                  database |-> database, schema |-> schema])
        /\ outcome' = Returned(build_select_query(table, limit, database, schema))
    /\ pc' = "done"
    /\ backend_error' = None
    /\ UNCHANGED <<catalog, conns, self_dict, locals, cursor>>

----------------------------------------------------------------------------
(* connect                                                                  *)

OptionKeys == {"warehouse", "schema", "role", "region"}
OptionValue(k) == <<k, "-value">>
OptionMaps == {[k \in K |-> OptionValue(k)] : K \in SUBSET OptionKeys}

\* a ConnectionConfig as the callers build it: the core fields and the options
\* mapping.  connect probes the attribute `extras` with getattr: a config may lack
\* it, hold None in it, or expose its mapping under that name
Configs ==
    [server : {<<"acct">>}, username : {<<"user">>}, password : {<<"secret">>},
     database : {DB1},
     options : OptionMaps,
     extras : {"absent", "None", "options"}]

\* getattr(config, "extras", {}) or {}
Extras(config) == IF config.extras = "options" THEN config.options ELSE <<>>

connect_args(config) ==
    LET extras == Extras(config)
        base == [k \in {"user", "password", "account", "database"} |->
                    CASE k = "user" -> config.username
                      [] k = "password" -> config.password
                      [] k = "account" -> config.server
                      [] k = "database" -> config.database]
        picked == {k \in {"warehouse", "schema", "role"} : k \in DOMAIN extras}
    IN  [k \in DOMAIN base \cup picked |-> IF k \in picked THEN extras[k] ELSE base[k]]

\* sf = import_driver_module(...): the driver module is importable or it is not
connect ==
    /\ Len(conns) < MaxConns
    /\ \E config \in Configs :
        /\ Start([op |-> "connect", config |-> config])
        /\ \/ /\ Leave(Raised("MissingDriverError"))
              /\ backend_error' = None
           \/ /\ pc' = "sf_connect"
              /\ locals' = [connect_args |-> connect_args(config)]
              /\ outcome' = NoOutcome
              /\ backend_error' = None
              /\ UNCHANGED cursor
    /\ UNCHANGED <<catalog, conns, self_dict>>

\* return sf.connect(**connect_args)
connect_sf_connect ==
    /\ pc = "sf_connect"
    /\ driver_calls' = Append(driver_calls, locals.connect_args)
    /\ \/ /\ \E e \in BackendErrors : Propagate(e)
          /\ UNCHANGED conns
       \/ /\ conns' = Append(conns, [state |-> "open", database |-> locals.connect_args["database"]])
          /\ Leave(Returned(Len(conns) + 1))
          /\ UNCHANGED backend_error
    /\ UNCHANGED <<catalog, self_dict, call, sent, fetched>>

\* the caller releases a handle it owns
conn_close ==
    /\ \E h \in DOMAIN conns :
        /\ conns[h].state = "open"
        /\ Start([op |-> "conn.close", conn |-> h])
        /\ conns' = [conns EXCEPT ![h].state = "closed"]
    /\ outcome' = Returned(None)
    /\ pc' = "done"
    /\ backend_error' = None
    /\ UNCHANGED <<catalog, self_dict, locals, cursor>>

\* the caller takes what the call returned or raised and moves on
caller_continues ==
    /\ pc = "done"
    /\ pc' = "idle"
    /\ call' = [op |-> "none"]
    /\ outcome' = NoOutcome
    /\ sent' = <<>>
    /\ fetched' = 0
    /\ driver_calls' = <<>>
    /\ backend_error' = None
    /\ UNCHANGED <<catalog, conns, self_dict, locals, cursor>>

----------------------------------------------------------------------------
(* get_databases                                                            *)

get_databases ==
    /\ \E conn \in DOMAIN conns :
        /\ Start([op |-> "get_databases", conn |-> conn])
        /\ OpenCursor(conn, "get_databases:execute")
    /\ UNCHANGED <<catalog, conns, self_dict>>

get_databases_execute ==
    /\ pc = "get_databases:execute"
    /\ Execute(Stmt(SQL_SHOW_DATABASES, <<>>, <<>>), "get_databases:fetchall")
    /\ pc' # "done" => UNCHANGED locals
    /\ UNCHANGED <<catalog, conns, self_dict, call, fetched, driver_calls>>

\* return [row[1] for row in cursor.fetchall()]
get_databases_fetchall ==
    /\ pc = "get_databases:fetchall"
    /\ \/ \E e \in BackendErrors : Propagate(e) /\ UNCHANGED fetched
       \/ LET got == FetchAll(cursor)
          IN  /\ fetched' = fetched + Len(got.rows)
              /\ Leave(Returned(MapSeq(got.rows, LAMBDA row : Item(row, 1))))
              /\ UNCHANGED backend_error
    /\ UNCHANGED <<catalog, conns, self_dict, call, sent, driver_calls>>

----------------------------------------------------------------------------
(* get_tables: the class body defines it twice; the name resolves to the    *)
(* last definition, which delegates to get_tables_via_info_schema           *)

get_tables_first_definition == "SHOW TABLES"

get_tables_resolved == "get_tables_via_info_schema"

\* the statement of the first (shadowed) definition
get_tables_show_stmt(database) ==
    Stmt(SQL_SHOW_TABLES,
         IF Truthy(database) THEN quote_identifier(database[1]) ELSE <<>>, <<>>)

get_tables_via_info_schema_stmt(database) ==
    Stmt(SQL_INFO_TABLES, db_prefix(database), <<>>)

get_tables ==
    /\ \E conn \in DOMAIN conns, database \in DbArgs :
        /\ Start([op |-> "get_tables", conn |-> conn, database |-> database])
        /\ OpenCursor(conn, "get_tables:execute")
    /\ UNCHANGED <<catalog, conns, self_dict>>

get_tables_execute ==
    /\ pc = "get_tables:execute"
    /\ Execute(IF get_tables_resolved = "get_tables_via_info_schema"
               THEN get_tables_via_info_schema_stmt(call.database)
               ELSE get_tables_show_stmt(call.database),
               "get_tables:fetchall")
    /\ pc' # "done" => UNCHANGED locals
    /\ UNCHANGED <<catalog, conns, self_dict, call, fetched, driver_calls>>

\* return [(row[0], row[1]) for row in cursor.fetchall()]
\* (the shadowed definition: [(row[3], row[1]) for row in cursor.fetchall()])
get_tables_fetchall ==
    /\ pc = "get_tables:fetchall"
    /\ \/ \E e \in BackendErrors : Propagate(e) /\ UNCHANGED fetched
       \/ LET got == FetchAll(cursor)
          IN  /\ fetched' = fetched + Len(got.rows)
              /\ Leave(Returned(
                    IF get_tables_resolved = "get_tables_via_info_schema"
                    THEN MapSeq(got.rows, LAMBDA row : <<Item(row, 0), Item(row, 1)>>)
                    ELSE MapSeq(got.rows, LAMBDA row : <<Item(row, 3), Item(row, 1)>>)))
              /\ UNCHANGED backend_error
    /\ UNCHANGED <<catalog, conns, self_dict, call, sent, driver_calls>>

----------------------------------------------------------------------------
(* get_views: SHOW VIEWS, then the information_schema query on the same     *)
(* cursor                                                                   *)

get_views_show_stmt(database) ==
    Stmt(SQL_SHOW_VIEWS,
         IF Truthy(database) THEN quote_identifier(database[1]) ELSE <<>>, <<>>)

get_views_sql_stmt(database) ==
    Stmt(SQL_INFO_VIEWS,
         IF Truthy(database) THEN quote_identifier(database[1]) \o <<".">> ELSE <<>>, <<>>)

get_views ==
    /\ \E conn \in DOMAIN conns, database \in DbArgs :
        /\ Start([op |-> "get_views", conn |-> conn, database |-> database])
        /\ OpenCursor(conn, "get_views:execute_show")
    /\ UNCHANGED <<catalog, conns, self_dict>>

get_views_execute_show ==
    /\ pc = "get_views:execute_show"
    /\ Execute(get_views_show_stmt(call.database), "get_views:execute_sql")
    /\ pc' # "done" => UNCHANGED locals
    /\ UNCHANGED <<catalog, conns, self_dict, call, fetched, driver_calls>>

\* the information_schema statement left out: the rows of SHOW VIEWS stay on the
\* cursor and are what the method reads
get_views_show_only ==
    /\ pc = "get_views:execute_sql"
    /\ pc' = "get_views:fetchall"
    /\ UNCHANGED <<catalog, conns, self_dict, call, locals, cursor, sent, fetched,
                   driver_calls, backend_error, outcome>>

\* a second execute on the cursor discards what the first left unfetched
get_views_execute_sql ==
    /\ pc = "get_views:execute_sql"
    /\ Execute(get_views_sql_stmt(call.database), "get_views:fetchall")
    /\ pc' # "done" => UNCHANGED locals
    /\ UNCHANGED <<catalog, conns, self_dict, call, fetched, driver_calls>>

get_views_fetchall ==
    /\ pc = "get_views:fetchall"
    /\ \/ \E e \in BackendErrors : Propagate(e) /\ UNCHANGED fetched
       \/ LET got == FetchAll(cursor)
          IN  /\ fetched' = fetched + Len(got.rows)
              /\ Leave(Returned(MapSeq(got.rows, LAMBDA row : <<Item(row, 0), Item(row, 1)>>)))
              /\ UNCHANGED backend_error
    /\ UNCHANGED <<catalog, conns, self_dict, call, sent, driver_calls>>

----------------------------------------------------------------------------
(* get_columns                                                              *)

ColumnInfo(name, data_type, is_primary_key) ==
    [name |-> name, data_type |-> data_type, is_primary_key |-> is_primary_key]

get_columns_sql_stmt(table, database, schema) ==
    Stmt(SQL_INFO_COLUMNS, db_prefix(database), <<SchemaOrPublic(schema), table>>)

get_columns_pk_stmt(table, database, schema) ==
    Stmt(SQL_INFO_PK, db_prefix(database), <<SchemaOrPublic(schema), table>>)

ColumnTables == {T1, T2, <<"ORDERS_T">>}
ColumnSchemas == {None, Some(ANALYTICS)}

get_columns ==
    /\ \E conn \in DOMAIN conns, table \in ColumnTables, database \in DbArgs,
          schema \in ColumnSchemas :
        /\ Start([op |-> "get_columns", conn |-> conn, table |-> table,
                  database |-> database, schema |-> schema])
        /\ OpenCursor(conn, "get_columns:execute_sql")
    /\ UNCHANGED <<catalog, conns, self_dict>>

get_columns_execute_sql ==
    /\ pc = "get_columns:execute_sql"
    /\ Execute(get_columns_sql_stmt(call.table, call.database, call.schema),
               "get_columns:fetchall_rows")
    /\ pc' # "done" => UNCHANGED locals
    /\ UNCHANGED <<catalog, conns, self_dict, call, fetched, driver_calls>>

\* rows = cursor, read only after the primary-key statement: nothing is fetched
\* here and the rows are still on the cursor when it executes again
get_columns_rows_deferred ==
    /\ pc = "get_columns:fetchall_rows"
    /\ locals' = [conn |-> locals.conn, rows |-> <<>>]
    /\ pc' = "get_columns:execute_pk"
    /\ UNCHANGED <<catalog, conns, self_dict, call, cursor, sent, fetched, driver_calls,
                   backend_error, outcome>>

\* rows = cursor.fetchall()
get_columns_fetchall_rows ==
    /\ pc = "get_columns:fetchall_rows"
    /\ \/ \E e \in BackendErrors : Propagate(e) /\ UNCHANGED fetched
       \/ LET got == FetchAll(cursor)
          IN  /\ fetched' = fetched + Len(got.rows)
              /\ cursor' = got.cursor
              /\ locals' = [conn |-> locals.conn, rows |-> got.rows]
              /\ pc' = "get_columns:execute_pk"
              /\ UNCHANGED <<backend_error, outcome>>
    /\ UNCHANGED <<catalog, conns, self_dict, call, sent, driver_calls>>

get_columns_execute_pk ==
    /\ pc = "get_columns:execute_pk"
    /\ Execute(get_columns_pk_stmt(call.table, call.database, call.schema),
               "get_columns:fetchall_pk")
    /\ pc' # "done" => UNCHANGED locals
    /\ UNCHANGED <<catalog, conns, self_dict, call, fetched, driver_calls>>

\* pk_columns = {row[0] for row in cursor.fetchall()}; return [ColumnInfo(...) for row in rows]
get_columns_fetchall_pk ==
    /\ pc = "get_columns:fetchall_pk"
    /\ \/ \E e \in BackendErrors : Propagate(e) /\ UNCHANGED fetched
       \/ LET got == FetchAll(cursor)
              pk_columns == {Item(got.rows[i], 0) : i \in 1..Len(got.rows)}
          IN  /\ fetched' = fetched + Len(got.rows)
              /\ Leave(Returned(MapSeq(locals.rows,
                    LAMBDA row : ColumnInfo(Item(row, 0), Item(row, 1),
                                            Item(row, 0) \in pk_columns))))
              /\ UNCHANGED backend_error
    /\ UNCHANGED <<catalog, conns, self_dict, call, sent, driver_calls>>

----------------------------------------------------------------------------
(* get_procedures, get_sequences, get_indexes, get_triggers                 *)

\* sorted(list(names)): Python orders str by code point, which on the catalog's
\* names is the order of Collation
sorted(S) ==
    CHOOSE s \in Orderings(S) :
        \A i, j \in 1..Cardinality(S) : i < j => NameRank(s[i]) < NameRank(s[j])

SequenceInfo(name) == [name |-> name]

get_procedures ==
    /\ \E conn \in DOMAIN conns, database \in DbArgs :
        /\ Start([op |-> "get_procedures", conn |-> conn, database |-> database])
        /\ OpenCursor(conn, "get_procedures:execute")
    /\ UNCHANGED <<catalog, conns, self_dict>>

get_procedures_execute ==
    /\ pc = "get_procedures:execute"
    /\ Execute(Stmt(SQL_INFO_ROUTINES, db_prefix(call.database), <<>>),
               "get_procedures:fetchall")
    /\ pc' # "done" => UNCHANGED locals
    /\ UNCHANGED <<catalog, conns, self_dict, call, fetched, driver_calls>>

\* return sorted(list({row[0] for row in cursor.fetchall()}))
get_procedures_fetchall ==
    /\ pc = "get_procedures:fetchall"
    /\ \/ \E e \in BackendErrors : Propagate(e) /\ UNCHANGED fetched
       \/ LET got == FetchAll(cursor)
          IN  /\ fetched' = fetched + Len(got.rows)
              /\ Leave(Returned(sorted({Item(got.rows[i], 0) : i \in 1..Len(got.rows)})))
              /\ UNCHANGED backend_error
    /\ UNCHANGED <<catalog, conns, self_dict, call, sent, driver_calls>>

get_sequences ==
    /\ \E conn \in DOMAIN conns, database \in DbArgs :
        /\ Start([op |-> "get_sequences", conn |-> conn, database |-> database])
        /\ OpenCursor(conn, "get_sequences:execute")
    /\ UNCHANGED <<catalog, conns, self_dict>>

get_sequences_execute ==
    /\ pc = "get_sequences:execute"
    /\ Execute(Stmt(SQL_INFO_SEQUENCES, db_prefix(call.database), <<>>),
               "get_sequences:fetchall")
    /\ pc' # "done" => UNCHANGED locals
    /\ UNCHANGED <<catalog, conns, self_dict, call, fetched, driver_calls>>

\* return [SequenceInfo(name=row[0]) for row in cursor.fetchall()]
get_sequences_fetchall ==
    /\ pc = "get_sequences:fetchall"
    /\ \/ \E e \in BackendErrors : Propagate(e) /\ UNCHANGED fetched
       \/ LET got == FetchAll(cursor)
          IN  /\ fetched' = fetched + Len(got.rows)
              /\ Leave(Returned(MapSeq(got.rows, LAMBDA row : SequenceInfo(Item(row, 0)))))
              /\ UNCHANGED backend_error
    /\ UNCHANGED <<catalog, conns, self_dict, call, sent, driver_calls>>

\* any object may be passed as conn: a handle (open or closed) or no handle at all
NoHandle == 0
ConnArgs == DOMAIN conns \cup {NoHandle}

\* what get_indexes would do if it queried the catalog as get_sequences does
get_indexes_querying ==
    /\ \E conn \in DOMAIN conns, database \in DbArgs :
        /\ Start([op |-> "get_indexes", conn |-> conn, database |-> database])
        /\ OpenCursor(conn, "get_sequences:execute")
    /\ UNCHANGED <<catalog, conns, self_dict>>

\* return []
get_indexes ==
    /\ \E conn \in ConnArgs, database \in DbArgs :
        Start([op |-> "get_indexes", conn |-> conn, database |-> database])
    /\ Leave(Returned(<<>>))
    /\ backend_error' = None
    /\ UNCHANGED <<catalog, conns, self_dict>>

\* return []
get_triggers ==
    /\ \E conn \in ConnArgs, database \in DbArgs :
        Start([op |-> "get_triggers", conn |-> conn, database |-> database])
    /\ Leave(Returned(<<>>))
    /\ backend_error' = None
    /\ UNCHANGED <<catalog, conns, self_dict>>

----------------------------------------------------------------------------
(* execute_query, execute_non_query                                         *)

MaxRowsArgs == Optional(0..MaxK)

execute_query ==
    /\ \E conn \in DOMAIN conns, query \in Queries, max_rows \in MaxRowsArgs :
        /\ Start([op |-> "execute_query", conn |-> conn, query |-> query,
                  max_rows |-> max_rows])
        /\ OpenCursor(conn, "execute_query:execute")
    /\ UNCHANGED <<catalog, conns, self_dict>>

\* only the first descriptor entry is read
ColumnsOfFirstEntry(description) ==
    IF description # None /\ description[1] # <<>>
    THEN <<description[1][1][1]>>
    ELSE <<>>

\* columns = [col[0] for col in cursor.description] if cursor.description else []
ColumnsOf(description) ==
    IF description # None /\ description[1] # <<>>
    THEN MapSeq(description[1], LAMBDA col : col[1])
    ELSE <<>>

\* cursor.execute(query), then the column names are read off the descriptor
execute_query_execute ==
    /\ pc = "execute_query:execute"
    /\ Execute(Stmt(call.query, <<>>, <<>>), "execute_query:fetch")
    /\ pc' # "done" => locals' = [conn |-> locals.conn, columns |-> ColumnsOf(cursor'.description)]
    /\ UNCHANGED <<catalog, conns, self_dict, call, fetched, driver_calls>>

\* the truncation flag set, the extra row not cut off
TruncateWithoutSlice(rows, max_rows) ==
    [rows |-> rows, truncated |-> max_rows # None /\ Len(rows) > max_rows[1]]

\* the rows execute_query keeps of what it fetched, and the truncation flag
Truncate(rows, max_rows) ==
    IF max_rows # None
    THEN LET truncated == Len(rows) > max_rows[1]
         IN  [rows |-> IF truncated THEN SubSeq(rows, 1, max_rows[1]) ELSE rows,
              truncated |-> truncated]
    ELSE [rows |-> rows, truncated |-> FALSE]

\* execute_query_fetch with a failing fetch answered by closing the session
execute_query_fetch_closing ==
    /\ pc = "execute_query:fetch"
    /\ \/ /\ \E e \in BackendErrors : Propagate(e)
          /\ conns' = [conns EXCEPT ![locals.conn].state = "closed"]
          /\ UNCHANGED fetched
       \/ LET got == IF call.max_rows # None
                     THEN FetchMany(cursor, call.max_rows[1] + 1)
                     ELSE FetchAll(cursor)
              kept == Truncate(got.rows, call.max_rows)
          IN  /\ fetched' = fetched + Len(got.rows)
              /\ Leave(Returned(<<locals.columns, MapSeq(kept.rows, tuple), kept.truncated>>))
              /\ UNCHANGED <<backend_error, conns>>
    /\ UNCHANGED <<catalog, self_dict, call, sent, driver_calls>>

\* execute_query_fetch with a failing fetch swallowed: the rows got so far (none)
\* are returned as the result
execute_query_fetch_swallowing ==
    /\ pc = "execute_query:fetch"
    /\ \/ /\ \E e \in BackendErrors : backend_error' = Some(e)
          /\ Leave(Returned(<<locals.columns, <<>>, FALSE>>))
          /\ UNCHANGED fetched
       \/ LET got == IF call.max_rows # None
                     THEN FetchMany(cursor, call.max_rows[1] + 1)
                     ELSE FetchAll(cursor)
              kept == Truncate(got.rows, call.max_rows)
          IN  /\ fetched' = fetched + Len(got.rows)
              /\ Leave(Returned(<<locals.columns, MapSeq(kept.rows, tuple), kept.truncated>>))
              /\ UNCHANGED backend_error
    /\ UNCHANGED <<catalog, conns, self_dict, call, sent, driver_calls>>

\* fetchmany(max_rows + 1) or fetchall(), then
\* return columns, [tuple(row) for row in rows], truncated
execute_query_fetch ==
    /\ pc = "execute_query:fetch"
    /\ \/ \E e \in BackendErrors : Propagate(e) /\ UNCHANGED fetched
       \/ LET got == IF call.max_rows # None
                     THEN FetchMany(cursor, call.max_rows[1] + 1)
                     ELSE FetchAll(cursor)
              kept == Truncate(got.rows, call.max_rows)
          IN  /\ fetched' = fetched + Len(got.rows)
              /\ Leave(Returned(<<locals.columns, MapSeq(kept.rows, tuple), kept.truncated>>))
              /\ UNCHANGED backend_error
    /\ UNCHANGED <<catalog, conns, self_dict, call, sent, driver_calls>>

execute_non_query ==
    /\ \E conn \in DOMAIN conns, query \in Queries :
        /\ Start([op |-> "execute_non_query", conn |-> conn, query |-> query])
        /\ OpenCursor(conn, "execute_non_query:execute")
    /\ UNCHANGED <<catalog, conns, self_dict>>

\* cursor.rowcount or 0: an absent count reported as zero rows
RowCountOrZero(rowcount) == IF rowcount # None THEN rowcount[1] ELSE 0

\* int(cursor.rowcount) if cursor.rowcount is not None else -1
RowCountOrSentinel(rowcount) == IF rowcount # None THEN rowcount[1] ELSE -1

execute_non_query_execute ==
    /\ pc = "execute_non_query:execute"
    /\ Execute(Stmt(call.query, <<>>, <<>>), "execute_non_query:return")
    /\ pc' # "done" => UNCHANGED locals
    /\ UNCHANGED <<catalog, conns, self_dict, call, fetched, driver_calls>>

\* the return statement reads cursor.rowcount; nothing is fetched
execute_non_query_return ==
    /\ pc = "execute_non_query:return"
    /\ Leave(Returned(RowCountOrSentinel(cursor.rowcount)))
    /\ UNCHANGED <<catalog, conns, self_dict, call, sent, fetched, driver_calls, backend_error>>

----------------------------------------------------------------------------
(* Specification                                                            *)

Init ==
    /\ catalog \in Catalogs
    /\ conns = <<>>
    /\ self_dict = <<>>
    /\ call = [op |-> "none"]
    /\ pc = "idle"
    /\ locals = NoLocals
    /\ cursor = NoCursor
    /\ sent = <<>>
    /\ fetched = 0
    /\ driver_calls = <<>>
    /\ backend_error = None
    /\ outcome = NoOutcome

Next ==
    \/ quote_identifier_call
    \/ build_select_query_call
    \/ connect
    \/ connect_sf_connect
    \/ conn_close
    \/ caller_continues
    \/ get_databases
    \/ get_databases_execute
    \/ get_databases_fetchall
    \/ get_tables
    \/ get_tables_execute
    \/ get_tables_fetchall
    \/ get_views
    \/ get_views_execute_show
    \/ get_views_execute_sql
    \/ get_views_fetchall
    \/ get_columns
    \/ get_columns_execute_sql
    \/ get_columns_fetchall_rows
    \/ get_columns_execute_pk
    \/ get_columns_fetchall_pk
    \/ get_procedures
    \/ get_procedures_execute
    \/ get_procedures_fetchall
    \/ get_sequences
    \/ get_sequences_execute
    \/ get_sequences_fetchall
    \/ get_indexes
    \/ get_triggers
    \/ execute_query
    \/ execute_query_execute
    \/ execute_query_fetch
    \/ execute_non_query
    \/ execute_non_query_execute
    \/ execute_non_query_return

Spec == Init /\ [][Next]_vars

----------------------------------------------------------------------------
(* Properties                                                               *)

IsReturn(op) == pc = "done" /\ call.op = op /\ outcome.kind = "return"

\* C1: execute_query with max_rows = k (k >= 0) over a result set of n rows
\* returns the first k rows and truncated = TRUE when n > k, all n rows and
\* truncated = FALSE when n <= k; with max_rows omitted it returns all n rows and
\* truncated = FALSE; with a ceiling k it takes at most k + 1 rows off the cursor.
C1_ExecuteQueryTruncation ==
    [][(pc = "execute_query:fetch" /\ outcome'.kind = "return") =>
        LET all == cursor.rows
            n == Len(all)
            rows == outcome'.value[2]
            truncated == outcome'.value[3]
        IN  IF call.max_rows = None
            THEN /\ Len(rows) = n
                 /\ \A i \in 1..n : rows[i] = all[i].cells
                 /\ truncated = FALSE
            ELSE LET k == call.max_rows[1]
                 IN  /\ fetched' - fetched <= k + 1
                     /\ IF n > k
                        THEN /\ Len(rows) = k
                             /\ \A i \in 1..k : rows[i] = all[i].cells
                             /\ truncated = TRUE
                        ELSE /\ Len(rows) = n
                             /\ \A i \in 1..n : rows[i] = all[i].cells
                             /\ truncated = FALSE]_vars

\* a result set larger than the ceiling, cut to a ceiling of zero rows
C1_Witness ==
    /\ IsReturn("execute_query")
    /\ call.max_rows = Some(0)
    /\ outcome.value[2] = <<>>
    /\ outcome.value[3] = TRUE
    /\ fetched = 1

\* C2: build_select_query quotes every identifier component with
\* quote_identifier: the text between SELECT * FROM and LIMIT is the dot-separated
\* quote_identifier forms of [database,] schema (PUBLIC when omitted) and table.
C2_BuildSelectQuotesEveryComponent ==
    IsReturn("build_select_query") =>
        LET schema == IF Truthy(call.schema) THEN call.schema[1] ELSE PUBLIC
            Text(qualifier) ==
                <<"SELECT * FROM ">> \o qualifier \o quote_identifier(schema) \o <<".">>
                    \o quote_identifier(call.table) \o <<" LIMIT ", ToString(call.limit)>>
        IN  \/ outcome.value = Text(<<>>)
            \/ /\ Truthy(call.database)
               /\ outcome.value = Text(quote_identifier(call.database[1]) \o <<".">>)

\* the maximal run of double quotes that starts at position i of s
RunLength(s, i) ==
    LET stop == CHOOSE j \in i..Len(s) :
                    /\ \A m \in i..j : s[m] = DQ
                    /\ (j = Len(s) \/ s[j + 1] # DQ)
    IN  stop - i + 1

\* every double quote of s stands in a run of even length
QuotesDoubled(s) ==
    \A i \in 1..Len(s) :
        (s[i] = DQ /\ (i = 1 \/ s[i - 1] # DQ)) => RunLength(s, i) % 2 = 0

\* C3: quote_identifier's output starts and ends with a double quote, every
\* embedded double quote is doubled, and reading the output back as a quoted
\* identifier yields the input; first"name maps to "first""name"; the call
\* changes no session, cursor or adapter state.
C3_QuoteIdentifierRoundTrip ==
    /\ [](IsReturn("quote_identifier") =>
            LET out == outcome.value
            IN  /\ Len(out) >= 2
                /\ out[1] = DQ
                /\ out[Len(out)] = DQ
                /\ QuotesDoubled(SubSeq(out, 2, Len(out) - 1))
                /\ ParseQuoted(out) = [ok |-> TRUE, val |-> call.name]
                /\ (call.name = FIRST_NAME =>
                        out = <<DQ, "first", DQ, DQ, "name", DQ>>))
    /\ [][call'.op = "quote_identifier" =>
            UNCHANGED <<catalog, conns, self_dict, locals, cursor>>]_vars

\* the scenario's identifier
C3_Witness ==
    /\ IsReturn("quote_identifier")
    /\ call.name = FIRST_NAME
    /\ outcome.value = <<DQ, "first", DQ, DQ, "name", DQ>>

\* the database a catalog call addresses
CallDatabase ==
    IF Truthy(call.database) THEN call.database[1] ELSE conns[call.conn].database

\* the key columns of the PRIMARY KEY constraints defined on one table
PrimaryKeyColumns(db, schema, table) ==
    {k.column : k \in
        {k \in catalog.key_column_usage :
            /\ k.db = db /\ k.schema = schema /\ k.table = table
            /\ \E tc \in catalog.table_constraints :
                /\ tc.db = db /\ tc.schema = schema /\ tc.table = table
                /\ tc.cname = k.cname
                /\ tc.ctype = "PRIMARY KEY"}}

\* C4: get_columns flags a column as primary key exactly when it is a key column
\* of a PRIMARY KEY constraint defined on that table in that schema.
C4_PrimaryKeyFlagsMatchConstraints ==
    IsReturn("get_columns") =>
        LET keys == PrimaryKeyColumns(CallDatabase, SchemaOrPublic(call.schema), call.table)
        IN  \A i \in 1..Len(outcome.value) :
                outcome.value[i].is_primary_key <=> (outcome.value[i].name \in keys)

\* C5: no step of an adapter method closes or alters a session handle or the
\* adapter's attributes, whether the method returns or raises; once a method has
\* left, nothing of it (frame, cursor) still refers to the handle.
C5_AdapterNeverClosesOrRetains ==
    /\ [](self_dict = <<>>)
    /\ []((pc \in {"idle", "done"}) => (locals = NoLocals /\ cursor = NoCursor))
    /\ [][call'.op # "conn.close" =>
            /\ self_dict' = self_dict
            /\ \A h \in DOMAIN conns : h \in DOMAIN conns' /\ conns'[h] = conns[h]]_vars

\* a query that failed on an open handle, which is still open
C5_Witness ==
    /\ pc = "done"
    /\ call.op = "execute_query"
    /\ outcome.kind = "raise"
    /\ conns[call.conn].state = "open"

\* C6: when the backend raises during execute_query or execute_non_query, the
\* call raises that same error, returns nothing, and has sent the statement once.
C6_QueryFailurePropagates ==
    (/\ pc = "done"
     /\ call.op \in {"execute_query", "execute_non_query"}
     /\ backend_error # None
     /\ backend_error[1] \in BackendErrors) =>
        /\ outcome = Raised(backend_error[1])
        /\ sent = <<Stmt(call.query, <<>>, <<>>)>>

\* the backend failed during a row-limited query
C6_Witness ==
    /\ pc = "done"
    /\ call.op = "execute_query"
    /\ call.max_rows # None
    /\ backend_error = Some("OperationalError")
    /\ outcome = Raised("OperationalError")
    /\ Len(sent) = 1

\* C7: get_indexes and get_triggers return an empty sequence and never raise,
\* whatever is passed as connection and database; they send no statement, open
\* no cursor and leave the handles as they were.
C7_IndexesAndTriggersEmpty ==
    /\ []((pc = "done" /\ call.op \in {"get_indexes", "get_triggers"}) =>
            /\ outcome = Returned(<<>>)
            /\ sent = <<>>
            /\ fetched = 0
            /\ backend_error = None
            /\ cursor = NoCursor)
    /\ [][call'.op \in {"get_indexes", "get_triggers"} =>
            /\ pc' = "done"
            /\ conns' = conns]_vars

\* get_indexes handed a closed handle
C7_Witness ==
    /\ pc = "done"
    /\ call.op = "get_indexes"
    /\ call.conn \in DOMAIN conns
    /\ conns[call.conn].state = "closed"
    /\ outcome = Returned(<<>>)

\* the base tables of one database outside the information schema
BaseTables(db) ==
    {t \in catalog.tables :
        t.db = db /\ t.type = "BASE TABLE" /\ t.schema # INFORMATION_SCHEMA}

\* C8: get_tables returns exactly the (schema, name) pairs of the base tables
\* outside the information schema, ascending by schema then name, with no view
\* among them, and never sends SHOW TABLES.
C8_GetTablesBaseTablesOnly ==
    /\ (call.op = "get_tables" => \A i \in 1..Len(sent) : sent[i].sql # SQL_SHOW_TABLES)
    /\ IsReturn("get_tables") =>
        LET out == outcome.value
        IN  /\ {out[i] : i \in 1..Len(out)}
                = {<<t.schema, t.name>> : t \in BaseTables(CallDatabase)}
            /\ \A i \in 1..Len(out) :
                /\ out[i][1] # INFORMATION_SCHEMA
                /\ ~ \E t \in catalog.tables :
                        t.db = CallDatabase /\ t.type = "VIEW" /\ <<t.schema, t.name>> = out[i]
            /\ \A i, j \in 1..Len(out) : i < j =>
                \/ NameRank(out[i][1]) < NameRank(out[j][1])
                \/ /\ out[i][1] = out[j][1]
                   /\ NameRank(out[i][2]) < NameRank(out[j][2])

\* a catalog with a view, a base table inside INFORMATION_SCHEMA and base tables
\* in two schemas
C8_Witness ==
    /\ IsReturn("get_tables")
    /\ \E t \in catalog.tables :
        t.db = CallDatabase /\ t.schema = INFORMATION_SCHEMA /\ t.type = "BASE TABLE"
    /\ outcome.value = <<<<ANALYTICS, <<"ORDERS_T">>>>, <<PUBLIC, T1>>, <<PUBLIC, T2>>>>

\* C9: execute_non_query returns the cursor's row count when it reports one and
\* -1 when rowcount is None; it does not raise for an absent count.
C9_NonQueryRowCountOrSentinel ==
    [][pc = "execute_non_query:return" =>
        /\ outcome'.kind = "return"
        /\ IF cursor.rowcount = None
           THEN outcome'.value = -1
           ELSE outcome'.value = cursor.rowcount[1]]_vars

\* a statement for which the backend reported no count
C9_Witness ==
    /\ IsReturn("execute_non_query")
    /\ outcome.value = -1
    /\ Len(sent) = 1

\* the arguments the options mapping calls for
ExpectedConnectArgs(config) ==
    LET recognized == {"warehouse", "schema", "role"} \cap DOMAIN config.options
    IN  [k \in {"user", "password", "account", "database"} \cup recognized |->
            CASE k = "user" -> config.username
              [] k = "password" -> config.password
              [] k = "account" -> config.server
              [] k = "database" -> config.database
              [] OTHER -> config.options[k]]

\* C10: connect passes the driver user, password, account and database plus those
\* of warehouse, schema and role present in the config's options mapping, drops
\* every other option without failing, and calls the driver's connect once.
C10_ConnectForwardsRecognizedOptions ==
    (pc = "done" /\ call.op = "connect" /\ outcome # Raised("MissingDriverError")) =>
        driver_calls = <<ExpectedConnectArgs(call.config)>>

\* C11: execute_query returns an empty column-name sequence, and does not fail,
\* when the statement leaves no descriptor on the cursor (description None or
\* empty); with a descriptor the column names are the first element of each
\* entry in descriptor order; every returned row is a plain tuple of the row's
\* cells.
C11_ColumnsFromDescriptor ==
    /\ [][(pc = "execute_query:execute" /\ pc' = "done") => backend_error' # None]_vars
    /\ [][(pc = "execute_query:fetch" /\ outcome'.kind = "return") =>
            LET d == cursor.description
                columns == outcome'.value[1]
                rows == outcome'.value[2]
            IN  /\ IF d = None \/ d[1] = <<>>
                   THEN columns = <<>>
                   ELSE /\ Len(columns) = Len(d[1])
                        /\ \A i \in 1..Len(columns) : columns[i] = d[1][i][1]
                /\ \A i \in 1..Len(rows) :
                    /\ DOMAIN rows[i] = 1..Len(cursor.rows[i].cells)
                    /\ \A j \in DOMAIN rows[i] : rows[i][j] = cursor.rows[i].cells[j]]_vars

\* a statement without a result set, answered with no columns and no rows
C11_Witness ==
    /\ IsReturn("execute_query")
    /\ call.query = UPDATE_T1
    /\ outcome.value = <<<<>>, <<>>, FALSE>>

\* C12: get_columns takes every row of the column statement off the cursor
\* before that cursor executes the primary-key statement, so none is lost; the
\* result holds one ColumnInfo per row of the column statement, in that
\* statement's order (ordinal position ascending), whatever rows the
\* primary-key statement returns and in whatever order.
C12_ColumnRowsFetchedBeforeKeyQuery ==
    /\ []((call.op = "get_columns" /\ pc = "get_columns:fetchall_rows") =>
            sent = <<get_columns_sql_stmt(call.table, call.database, call.schema)>>)
    /\ [][(pc = "get_columns:fetchall_rows" /\ pc' # "done") =>
            /\ pc' = "get_columns:execute_pk"
            /\ locals'.rows = cursor.rows
            /\ cursor'.rows = <<>>]_vars
    /\ [][pc = "get_columns:execute_pk" =>
            /\ cursor.rows = <<>>
            /\ sent' = Append(sent, get_columns_pk_stmt(call.table, call.database, call.schema))
            /\ (pc' # "done" => locals'.rows = locals.rows)]_vars
    /\ [][(pc = "get_columns:fetchall_pk" /\ outcome'.kind = "return") =>
            LET out == outcome'.value
                rows == locals.rows
            IN  /\ Len(out) = Len(rows)
                /\ \A i \in 1..Len(rows) :
                    /\ out[i].name = rows[i].cells[1]
                    /\ out[i].data_type = rows[i].cells[2]
                /\ \A i, j \in 1..Len(rows) : i < j => rows[i].cells[3] < rows[j].cells[3]]_vars

\* two column rows, and a primary-key statement that answered with two rows
C12_Witness ==
    /\ IsReturn("get_columns")
    /\ Len(outcome.value) = 2
    /\ fetched = 4
    /\ Len(sent) = 2

\* the views of one database outside the information schema
UserViews(db) ==
    {t \in catalog.tables : t.db = db /\ t.type = "VIEW" /\ t.schema # INFORMATION_SCHEMA}

\* C13: the list get_views returns is the answer to the information_schema.views
\* statement alone: the (schema, name) pairs of the views outside
\* INFORMATION_SCHEMA, ascending by schema then name.  The rows SHOW VIEWS left
\* on the cursor are never fetched: the second execute replaces them, and every
\* row the call takes off the cursor is a row of the second statement.
C13_GetViewsIgnoresShowViews ==
    /\ [][pc = "get_views:execute_sql" =>
            /\ fetched = 0
            /\ sent = <<get_views_show_stmt(call.database)>>
            /\ sent' = Append(sent, get_views_sql_stmt(call.database))
            /\ (pc' # "done" =>
                    cursor' \in ExecuteAnswers(get_views_sql_stmt(call.database),
                                               conns[locals.conn].database))]_vars
    /\ [][(pc = "get_views:fetchall" /\ outcome'.kind = "return") =>
            LET out == outcome'.value
            IN  /\ Len(sent) = 2
                /\ fetched' = Len(out)
                /\ Len(out) = Len(cursor.rows)
                /\ \A i \in 1..Len(out) :
                    out[i] = <<cursor.rows[i].cells[1], cursor.rows[i].cells[2]>>
                /\ {out[i] : i \in 1..Len(out)}
                        = {<<t.schema, t.name>> : t \in UserViews(CallDatabase)}
                /\ \A i, j \in 1..Len(out) : i < j =>
                    \/ NameRank(out[i][1]) < NameRank(out[j][1])
                    \/ /\ out[i][1] = out[j][1]
                       /\ NameRank(out[i][2]) < NameRank(out[j][2])]_vars

\* SHOW VIEWS answered with two rows (one of them the information schema's own
\* view), of which the single user view is returned
C13_Witness ==
    /\ IsReturn("get_views")
    /\ ~ Truthy(call.database)
    /\ Cardinality({t \in catalog.tables : t.db = CallDatabase /\ t.type = "VIEW"}) >= 2
    /\ outcome.value = <<<<PUBLIC, <<"V1">>>>>>
    /\ fetched = 1

====
